---- MODULE Spec2Model ----
(***************************************************************************)
(* Model of dependency_analyzer.py: the DependencyAnalyzer class with its  *)
(* classifier (_is_external_package), the pattern tool (_run_astgrep), the *)
(* per-file analysis that fills the DependencyReport (analyze_file), the   *)
(* depth-first cycle detector (find_circular_dependencies), the two        *)
(* renderings of the report (generate_report_text, save_report_json) and   *)
(* the command line run that strings them together (main).                 *)
(*                                                                         *)
(* Strings are sequences of one-character strings, so that str.startswith  *)
(* and Path.suffix are computed, not assumed.  A Python dict is a sequence *)
(* of [key, val] entries in insertion order; a Python set of strings is a  *)
(* duplicate-free sequence, its iteration order.                           *)
(***************************************************************************)
EXTENDS Integers, Sequences, FiniteSets, TLC

VARIABLES
    total_dependencies,     \* report.total_dependencies
    external_dependencies,  \* report.external_dependencies
    internal_dependencies,  \* report.internal_dependencies
    dependencies_by_file,   \* report.dependencies_by_file: dict str -> list of DependencyInfo
    dependency_graph,       \* report.dependency_graph: dict str -> set of str
    circular_dependencies,  \* report.circular_dependencies: list of lists of str
    pc,                     \* "idle" | "roots" | "dfs": position inside find_circular_dependencies;
                            \* "raised": an exception has escaped to the caller
    visited,                \* find_circular_dependencies: the local set visited
    rec_stack,              \* the rec_stack set of the dfs calls of the current root
    frames,                 \* the active dfs calls, outermost first: [node, path, i]
    root_i,                 \* index of the next key of the loop of line 295
    cycles_at_start,        \* history: circular_dependencies when the current/last run began
    unmodified,             \* history: a run has returned and the graph is as it was then
    rerun,                  \* history: the current/last run began with unmodified = TRUE
    cls_package,            \* argument of a direct _is_external_package call
    cls_result,             \* << >> before that call, << its result >> after it
    main_pc,                \* position inside main(): "walk" | "detect" | "report" | "json" |
                            \* "text" | "done"; "off" when the analyzer is used as a library
    directory,              \* args.directory on disk: [exists, files], files a dict from
                            \* file name to the matches the pattern tool finds in the file
    args,                   \* main's parsed arguments: [detect_circular, json, text]
    todo,                   \* analyze_directory: the files os.walk has yet to yield
    text_report,            \* << >>, or << what generate_report_text returned last >>
    json_report,            \* << >>, or << the data save_report_json dumped last >>
    text_file,              \* << >>, or << what main wrote to args.text >>
    last_call               \* history: << >>, or << [file_path, results] >> of the last
                            \* analyze_file call whose pattern tool runs are spelled out

vars == << total_dependencies, external_dependencies, internal_dependencies,
           dependencies_by_file, dependency_graph, circular_dependencies,
           pc, visited, rec_stack, frames, root_i,
           cycles_at_start, unmodified, rerun, cls_package, cls_result,
           main_pc, directory, args, todo, text_report, json_report, text_file,
           last_call >>

report_vars == << total_dependencies, external_dependencies, internal_dependencies,
                  dependencies_by_file, dependency_graph, circular_dependencies >>

dfs_vars == << pc, visited, rec_stack, frames, root_i >>

history_vars == << cycles_at_start, unmodified, rerun >>

cls_vars == << cls_package, cls_result >>

main_vars == << main_pc, directory, args, todo >>

out_vars == << text_report, json_report, text_file >>

\* what only main() and the spelled-out tool runs touch
run_vars == << main_vars, out_vars, last_call >>

----------------------------------------------------------------------------
(* Bounds of the model.                                                    *)

\* longest string handed to a direct _is_external_package call
MaxLen == 3
\* most DependencyInfo records the report holds
MaxRecords == 4
\* most matches the pattern tool reports for one file
MaxHits == 2

----------------------------------------------------------------------------
(* Strings.                                                                *)

Range(s) == { s[i] : i \in 1..Len(s) }

\* str.startswith
startswith(s, prefix) ==
    /\ Len(prefix) <= Len(s)
    /\ SubSeq(s, 1, Len(prefix)) = prefix

\* the characters direct classifier calls are built from
Alphabet == { ".", "/", "@", "r", "x" }

\* every string over Alphabet of length 0..MaxLen
Strings == UNION { [1..n -> Alphabet] : n \in 0..MaxLen }

\* names used by the tests of the classifier (test_is_external_package) and
\* by the standard-library imports of test_analyze_python_imports
NameReact == << "r", "e", "a", "c", "t" >>
NameTypesNode == << "@", "t", "y", "p", "e", "s", "/", "n", "o", "d", "e" >>
NameExpress == << "e", "x", "p", "r", "e", "s", "s" >>
NameDotUtils == << ".", "/", "u", "t", "i", "l", "s" >>
NameUpComponents == << ".", ".", "/", "c", "o", "m", "p", "o", "n", "e", "n", "t", "s" >>
NameOs == << "o", "s" >>
NameLeftPad == << "l", "e", "f", "t", "-", "p", "a", "d" >>

TestNames == { NameReact, NameTypesNode, NameExpress, NameDotUtils,
               NameUpComponents, NameOs, NameLeftPad }

----------------------------------------------------------------------------
(* DependencyAnalyzer.__init__ and _is_external_package.                   *)

external_indicators ==
    << << "@" >>,
       << "r", "e", "a", "c", "t" >>,
       << "v", "u", "e" >>,
       << "a", "n", "g", "u", "l", "a", "r" >>,
       << "e", "x", "p", "r", "e", "s", "s" >>,
       << "n", "e", "x", "t" >>,
       << "l", "o", "d", "a", "s", "h" >>,
       << "a", "x", "i", "o", "s" >>,
       << "m", "o", "m", "e", "n", "t" >>,
       << "d", "a", "y", "j", "s" >> >>

\* the classifier with the result of its relative-import test inverted
is_external_package_inverted(package) ==
    IF startswith(package, << "." >>)
    THEN TRUE
    ELSE \E k \in 1..Len(external_indicators) : startswith(package, external_indicators[k])

is_external_package(package) ==
    IF startswith(package, << "." >>)
    THEN FALSE
    ELSE \E k \in 1..Len(external_indicators) : startswith(package, external_indicators[k])

----------------------------------------------------------------------------
(* Files and the references found in them.                                 *)

FileA == << "a", ".", "p", "y" >>
FileB == << "b", ".", "t", "s" >>
FileC == << "c", ".", "j", "s" >>
FileD == << "d", ".", "m", "d" >>
RelU == << ".", "/", "u" >>
ScopedX == << "@", "x" >>

\* Path.suffix of a one-component path: from the last dot on, "" when the
\* name has no dot or only a leading one
suffix(file_path) ==
    LET dots == { i \in 2..Len(file_path) : file_path[i] = "." }
    IN  IF dots = {} \/ file_path[Len(file_path)] = "."
        THEN << >>
        ELSE SubSeq(file_path, CHOOSE i \in dots : \A j \in dots : j <= i, Len(file_path))

SuffixPy == << ".", "p", "y" >>
SuffixesTs == { << ".", "t", "s" >>, << ".", "t", "s", "x" >> }
SuffixesJs == { << ".", "j", "s" >>, << ".", "j", "s", "x" >> }

\* import_type of the records of each pattern, in the order the patterns run.
\* analyze_python_imports: 'import $PACKAGE', 'from $PACKAGE import $$$',
\* 'import $PACKAGE as $ALIAS'
python_patterns == << "static", "static", "static" >>

\* analyze_typescript_imports: the four static_patterns, then import("$PACKAGE"),
\* require("$PACKAGE"), import type { $$ } from "$PACKAGE"
typescript_patterns ==
    << "static", "static", "static", "static", "dynamic", "require", "type_only" >>

\* The list _run_astgrep returns is a sequence of matches [meta, text, line]:
\* meta = "single" for {'metaVariables': {'single': {'PACKAGE': {'text': ..}}}},
\* "flat" for {'metaVariables': {'PACKAGE': ..}}, "none" for a match that
\* binds no PACKAGE; line is range.start.line.
Metas == { "single", "flat", "none" }

HasPackage(match) == match.meta \in { "single", "flat" }

\* What the tool prints need not be a list of such matches.  An element can
\* be a JSON string ("string"), on which match.get raises AttributeError
\* (line 87); a match can bind PACKAGE to a node without text ("textless"),
\* so that package is None and package.startswith raises (line 67).
Malformed == { "string", "textless" }

\* the "for match in matches" loops raise on some element of some answer
extraction_raises(out) ==
    \E k \in 1..Len(out) : \E j \in 1..Len(out[k]) : out[k][j].meta \in Malformed

\* One run of the tool as subprocess.run ends it: status is "timeout"
\* (TimeoutExpired after 30 s), "oserror" (the process cannot be started) or
\* "exited", then with a returncode and a stdout.  stdout is blank, text
\* that is no JSON ("invalid"), or JSON, modelled by the list json.loads
\* makes of it.
Blank == [ kind |-> "blank", value |-> << >> ]
Invalid == [ kind |-> "invalid", value |-> << >> ]
Json(value) == [ kind |-> "json", value |-> value ]

\* a tool runner that does not look at the return code
run_astgrep_any_exit(result) ==
    IF result.status # "exited"
    THEN << >>
    ELSE IF result.stdout.kind = "json" THEN result.stdout.value ELSE << >>

\* _run_astgrep, lines 48-62
run_astgrep(result) ==
    IF result.status # "exited"
    THEN << >>
    ELSE IF result.returncode = 0 /\ result.stdout.kind # "blank"
         THEN IF result.stdout.kind = "invalid"
              THEN << >>
              ELSE result.stdout.value
         ELSE << >>

DependencyInfo(package, import_type, file_path, line_number) ==
    [ package |-> package, import_type |-> import_type, file_path |-> file_path,
      line_number |-> line_number, is_external |-> is_external_package(package) ]

\* the body of one "for match in matches" loop
RECURSIVE MatchesToDeps(_, _, _)
MatchesToDeps(matches, import_type, file_path) ==
    IF matches = << >>
    THEN << >>
    ELSE LET match == Head(matches)
             rest == MatchesToDeps(Tail(matches), import_type, file_path)
         IN  IF HasPackage(match)
             THEN << DependencyInfo(match.text, import_type, file_path, match.line) >> \o rest
             ELSE rest

\* the pattern loops of analyze_python_imports / analyze_typescript_imports:
\* out[k] is what _run_astgrep returned for pattern k
RECURSIVE AnalyzeFrom(_, _, _, _)
AnalyzeFrom(k, patterns, out, file_path) ==
    IF k > Len(patterns)
    THEN << >>
    ELSE MatchesToDeps(out[k], patterns[k], file_path)
             \o AnalyzeFrom(k + 1, patterns, out, file_path)

analyze_python_imports(file_path, out) ==
    AnalyzeFrom(1, python_patterns, out, file_path)

analyze_typescript_imports(file_path, out) ==
    AnalyzeFrom(1, typescript_patterns, out, file_path)

\* whether analyze_file handles the file at all (lines 233-240)
Supported(file_path) ==
    suffix(file_path) \in { SuffixPy } \cup SuffixesTs \cup SuffixesJs

PatternsOf(file_path) ==
    IF suffix(file_path) = SuffixPy THEN python_patterns ELSE typescript_patterns

----------------------------------------------------------------------------
(* Python containers.                                                      *)

Keys(d) == { d[i].key : i \in 1..Len(d) }

\* dict.get(k, default)
Get(d, k, default) ==
    IF k \in Keys(d)
    THEN d[CHOOSE i \in 1..Len(d) : d[i].key = k].val
    ELSE default

\* d[k] = v: an existing key keeps its place, a new key goes last
Put(d, k, v) ==
    IF k \in Keys(d)
    THEN [ i \in 1..Len(d) |-> IF d[i].key = k THEN [ key |-> k, val |-> v ] ELSE d[i] ]
    ELSE Append(d, [ key |-> k, val |-> v ])

\* set.add(x): every iteration order the hash table can give the grown set.
\* A string already present changes nothing; a new one lands in a free slot
\* of the table, anywhere among the others.
SetAdd(s, x) ==
    IF x \in Range(s)
    THEN { s }
    ELSE { SubSeq(s, 1, p) \o << x >> \o SubSeq(s, p + 1, Len(s)) : p \in 0..Len(s) }

----------------------------------------------------------------------------
(* analyze_file: the "Add to report" loop, lines 242-255.                  *)

\* a graph builder that draws an edge for every record, external or not
GraphAdd_every_record(graph, src_file, dep) ==
    { Put(graph, src_file, t) : t \in SetAdd(Get(graph, src_file, << >>), dep.package) }

\* a graph builder that skips a target some file analyzed earlier points to
GraphAdd_first_only(graph, src_file, dep) ==
    IF ~ dep.is_external
          /\ \A i \in 1..Len(graph) :
                 graph[i].key # src_file => dep.package \notin Range(graph[i].val)
    THEN { Put(graph, src_file, t) : t \in SetAdd(Get(graph, src_file, << >>), dep.package) }
    ELSE { graph }

\* lines 252-255: the graphs that adding dep from src_file can leave
GraphAdd(graph, src_file, dep) ==
    IF ~ dep.is_external
    THEN { Put(graph, src_file, t) : t \in SetAdd(Get(graph, src_file, << >>), dep.package) }
    ELSE { graph }

\* a graph builder that starts every file from a graph of that file alone
RECURSIVE GraphsAfter_fresh(_, _, _)
GraphsAfter_fresh(graph, src_file, deps) ==
    IF deps = << >>
    THEN { SelectSeq(graph, LAMBDA e : e.key = src_file) }
    ELSE UNION { GraphsAfter_fresh(g, src_file, Tail(deps)) :
                   g \in GraphAdd(graph, src_file, Head(deps)) }

\* a graph builder that looks the file up before it has a record to add,
\* which files it in the defaultdict with an empty set
RECURSIVE GraphsAfter_touching(_, _, _)
GraphsAfter_touching(graph, src_file, deps) ==
    IF deps = << >>
    THEN { Put(graph, src_file, Get(graph, src_file, << >>)) }
    ELSE UNION { GraphsAfter_touching(g, src_file, Tail(deps)) :
                   g \in GraphAdd(graph, src_file, Head(deps)) }

RECURSIVE GraphsAfter(_, _, _)
GraphsAfter(graph, src_file, deps) ==
    IF deps = << >>
    THEN { graph }
    ELSE UNION { GraphsAfter(g, src_file, Tail(deps)) : g \in GraphAdd(graph, src_file, Head(deps)) }

\* a record list that keeps one record of equal ones
RECURSIVE ByFileAfter_deduplicated(_, _)
ByFileAfter_deduplicated(by_file, deps) ==
    IF deps = << >>
    THEN by_file
    ELSE LET dep == Head(deps)
             held == Get(by_file, dep.file_path, << >>)
         IN  ByFileAfter_deduplicated(
                 Put(by_file, dep.file_path,
                     IF dep \in Range(held) THEN held ELSE Append(held, dep)),
                 Tail(deps))

\* line 244 for every dep
RECURSIVE ByFileAfter(_, _)
ByFileAfter(by_file, deps) ==
    IF deps = << >>
    THEN by_file
    ELSE LET dep == Head(deps)
         IN  ByFileAfter(Put(by_file, dep.file_path,
                             Append(Get(by_file, dep.file_path, << >>), dep)),
                         Tail(deps))

\* lines 247-250: how many of deps count as external
RECURSIVE CountExternal(_)
CountExternal(deps) ==
    IF deps = << >>
    THEN 0
    ELSE (IF Head(deps).is_external THEN 1 ELSE 0) + CountExternal(Tail(deps))

\* analyze_file(file_path), with out[k] what _run_astgrep returns for the
\* k-th pattern of the file's language.  An exception of the extraction
\* leaves analyze_file before the report is touched.
analyze_file(file_path, out) ==
    /\ pc = "idle"
    /\ IF ~ Supported(file_path)
       THEN UNCHANGED << report_vars, unmodified, pc >>
       ELSE IF extraction_raises(out)
       THEN /\ pc' = "raised"
            /\ UNCHANGED << report_vars, unmodified >>
       ELSE \E deps \in { IF suffix(file_path) = SuffixPy
                           THEN analyze_python_imports(file_path, out)
                           ELSE analyze_typescript_imports(file_path, out) } :
                /\ dependencies_by_file' = ByFileAfter(dependencies_by_file, deps)
                /\ total_dependencies' = total_dependencies + Len(deps)
                /\ external_dependencies' = external_dependencies + CountExternal(deps)
                /\ internal_dependencies' =
                       internal_dependencies + (Len(deps) - CountExternal(deps))
                /\ dependency_graph' \in GraphsAfter(dependency_graph, file_path, deps)
                /\ unmodified' = (unmodified /\ dependency_graph' = dependency_graph)
                /\ UNCHANGED << circular_dependencies, pc >>
    /\ UNCHANGED << visited, rec_stack, frames, root_i, cycles_at_start, rerun, cls_vars >>

----------------------------------------------------------------------------
(* find_circular_dependencies, lines 275-297.  One step of the model is    *)
(* one iteration of a loop: of "for node in dependency_graph" (line 295)   *)
(* or of "for neighbor in ..." (line 282) in the innermost active dfs.     *)
(* Entering dfs (lines 278-280) is part of the step that makes the call,   *)
(* and leaving it (line 292) is the step that finds its loop exhausted.    *)

\* list.index(x): the first position of x, 0 when x is absent (Python raises)
index(path, x) ==
    IF x \in Range(path)
    THEN CHOOSE i \in 1..Len(path) : path[i] = x /\ \A j \in 1..(i - 1) : path[j] # x
    ELSE 0

\* a slice that leaves the cycle open
cycle_of_unclosed(path, neighbor) ==
    SubSeq(path, index(path, neighbor), Len(path))

\* a slice that starts one node late
cycle_of_late(path, neighbor) ==
    SubSeq(path, index(path, neighbor) + 1, Len(path)) \o << neighbor >>

\* a slice with the neighbour put in front instead of behind
cycle_of_prepended(path, neighbor) ==
    << neighbor >> \o SubSeq(path, index(path, neighbor), Len(path))

\* the whole path, not sliced at the neighbour
cycle_of_whole_path(path, neighbor) ==
    Append(path, neighbor)

\* lines 287-288: cycle = path[cycle_start:] + [neighbor]
cycle_of(path, neighbor) ==
    SubSeq(path, index(path, neighbor), Len(path)) \o << neighbor >>

\* whether b is a with its loop started at another node
IsRotation(a, b) ==
    /\ Len(a) = Len(b)
    /\ Len(a) >= 2
    /\ \E k \in 1..(Len(a) - 2) :
           \A i \in 1..Len(a) : b[i] = a[((i - 1 + k) % (Len(a) - 1)) + 1]

\* the list after a cycle is found, were every found cycle appended
record_cycle_undeduplicated(cycles, cycle) ==
    Append(cycles, cycle)

\* the list after a cycle is found, were rotations of an entry taken for it
record_cycle_canonical(cycles, cycle) ==
    IF \E i \in 1..Len(cycles) : cycles[i] = cycle \/ IsRotation(cycles[i], cycle)
    THEN cycles
    ELSE Append(cycles, cycle)

\* the list after a cycle is found, were the search to keep its first cycle only
record_cycle_first_only(cycles, cycle) ==
    IF cycles = << >> THEN << cycle >> ELSE cycles

\* lines 289-290: if cycle not in circular_dependencies: append
record_cycle(cycles, cycle) ==
    IF cycle \in Range(cycles) THEN cycles ELSE Append(cycles, cycle)

\* a dfs that never takes a node off the recursion stack
leave_keeping(stack, node) ==
    stack

\* line 292: rec_stack.remove(node)
leave(stack, node) ==
    stack \ { node }

\* a detector with the test of line 285 negated
on_stack_negated(neighbor, stack) ==
    neighbor \notin stack

\* line 285: elif neighbor in rec_stack
on_stack(neighbor, stack) ==
    neighbor \in stack

\* a dfs that forgets to mark the node it enters
enter_unmarked(seen, node) ==
    seen

\* line 278: visited.add(node)
enter(seen, node) ==
    seen \cup { node }

\* a search that explores again every neighbour that is off the stack
unvisited_or_left(neighbor, seen, stack) ==
    neighbor \notin stack

\* line 283: if neighbor not in visited
unvisited(neighbor, seen, stack) ==
    neighbor \notin seen

\* a neighbour lookup by subscript, which files the node in the defaultdict
after_getitem(graph, node) ==
    Put(graph, node, Get(graph, node, << >>))

\* line 282: the graph once dict.get has looked node up; get adds no key
after_get(graph, node) ==
    graph

\* line 275 entered, up to the first test of the loop of line 295
find_circular_dependencies ==
    /\ pc = "idle"
    /\ pc' = "roots"
    /\ visited' = {}
    /\ rec_stack' = {}
    /\ frames' = << >>
    /\ root_i' = 1
    /\ cycles_at_start' = circular_dependencies
    /\ rerun' = unmodified
    /\ UNCHANGED << report_vars, unmodified, cls_vars >>

\* lines 295-297: one iteration of the loop over the keys, or its end
next_root ==
    /\ pc = "roots"
    /\ IF root_i > Len(dependency_graph)
       THEN /\ pc' = "idle"
            /\ unmodified' = TRUE
            /\ UNCHANGED << visited, rec_stack, frames, root_i >>
       ELSE LET node == dependency_graph[root_i].key
            IN  /\ root_i' = root_i + 1
                /\ unmodified' = unmodified
                /\ IF node \notin visited
                   THEN /\ pc' = "dfs"
                        /\ visited' = enter(visited, node)
                        /\ rec_stack' = { node }
                        /\ frames' = << [ node |-> node, path |-> << node >>, i |-> 1 ] >>
                   ELSE UNCHANGED << pc, visited, rec_stack, frames >>
    /\ UNCHANGED << report_vars, cycles_at_start, rerun, cls_vars >>

\* lines 282-292: one iteration of the neighbour loop of the innermost dfs,
\* or its return
dfs ==
    /\ pc = "dfs"
    /\ LET top == frames[Len(frames)]
           neighbors == Get(dependency_graph, top.node, << >>)
       IN  IF top.i > Len(neighbors)
           THEN /\ rec_stack' = leave(rec_stack, top.node)
                /\ frames' = SubSeq(frames, 1, Len(frames) - 1)
                /\ pc' = IF Len(frames) = 1 THEN "roots" ELSE "dfs"
                /\ UNCHANGED << visited, circular_dependencies >>
           ELSE LET neighbor == neighbors[top.i]
                    advanced == [ frames EXCEPT ![Len(frames)].i = top.i + 1 ]
                IN  IF unvisited(neighbor, visited, rec_stack)
                    THEN /\ visited' = enter(visited, neighbor)
                         /\ rec_stack' = rec_stack \cup { neighbor }
                         /\ frames' = Append(advanced,
                                             [ node |-> neighbor,
                                               path |-> Append(top.path, neighbor),
                                               i |-> 1 ])
                         /\ pc' = "dfs"
                         /\ UNCHANGED circular_dependencies
                    ELSE IF on_stack(neighbor, rec_stack)
                    THEN IF neighbor \in Range(top.path)
                         THEN /\ circular_dependencies' =
                                     record_cycle(circular_dependencies,
                                                  cycle_of(top.path, neighbor))
                              /\ frames' = advanced
                              /\ pc' = "dfs"
                              /\ UNCHANGED << visited, rec_stack >>
                         ELSE \* path.index raises ValueError out of the whole call
                              /\ pc' = "raised"
                              /\ frames' = << >>
                              /\ UNCHANGED << visited, rec_stack, circular_dependencies >>
                    ELSE /\ frames' = advanced
                         /\ pc' = "dfs"
                         /\ UNCHANGED << visited, rec_stack, circular_dependencies >>
    /\ dependency_graph' = after_get(dependency_graph, frames[Len(frames)].node)
    /\ UNCHANGED << total_dependencies, external_dependencies, internal_dependencies,
                    dependencies_by_file, root_i, history_vars, cls_vars >>

----------------------------------------------------------------------------
(* generate_report_text and save_report_json, lines 299-426.  The text is  *)
(* modelled by its content, section by section; a section the code leaves  *)
(* out when it is empty is an empty list here.                             *)

\* the characters of the model in ascending code point, for str.__lt__
Ascii ==
    << "-", ".", "/", "0", "1", "2", "3", "4", "5", "6", "7", "8", "9", "@",
       "a", "b", "c", "d", "e", "f", "g", "h", "i", "j", "k", "l", "m",
       "n", "o", "p", "q", "r", "s", "t", "u", "v", "w", "x", "y", "z" >>

ord(c) == CHOOSE i \in 1..Len(Ascii) : Ascii[i] = c

\* s < t for Python strings
str_lt(s, t) ==
    LET differ == { i \in 1..Len(s) : i <= Len(t) /\ s[i] # t[i] }
    IN  IF differ = {}
        THEN Len(s) < Len(t)
        ELSE LET i == CHOOSE d \in differ : \A e \in differ : d <= e
             IN  ord(s[i]) < ord(t[i])

\* sorted(S) for a set of strings
RECURSIVE sorted(_)
sorted(S) ==
    IF S = {}
    THEN << >>
    ELSE LET least == CHOOSE x \in S : \A y \in S \ { x } : str_lt(x, y)
         IN  << least >> \o sorted(S \ { least })

\* An iteration that looks every target of the graph up in the
\* defaultdict, which files each missing one with an empty list.
RECURSIVE iterate_by_lookup(_)
iterate_by_lookup(d) ==
    LET targets == UNION { Range(dependency_graph[k].val) : k \in 1..Len(dependency_graph) }
        missing == sorted(targets \ Keys(d))
    IN  IF missing = << >>
        THEN d
        ELSE iterate_by_lookup(Append(d, [ key |-> Head(missing), val |-> << >> ]))

\* What "for .. in d.values()" and d.items() (lines 320, 335, 344, 375)
\* leave of the defaultdict d: a view looks no key up, so none is created.
iterate(d) == d

\* every record of the report, file by file (the nested loops of lines 320-321)
RECURSIVE all_deps(_)
all_deps(by_file) ==
    IF by_file = << >> THEN << >> ELSE Head(by_file).val \o all_deps(Tail(by_file))

\* lines 319-323
external_packages(by_file) ==
    { all_deps(by_file)[i].package :
        i \in { j \in 1..Len(all_deps(by_file)) : all_deps(by_file)[j].is_external } }

\* lines 334-338: the records, of any file, whose package is the given one
usage_count(by_file, package) ==
    Cardinality({ i \in 1..Len(all_deps(by_file)) : all_deps(by_file)[i].package = package })

\* the values of import_type in ascending order, for sorted(by_type.items())
import_types == << "dynamic", "require", "static", "type_only" >>

\* lines 343-358
by_type(by_file) ==
    SelectSeq([ k \in 1..Len(import_types) |->
                  [ import_type |-> import_types[k],
                    count |-> Cardinality({ i \in 1..Len(all_deps(by_file)) :
                                   all_deps(by_file)[i].import_type = import_types[k] }) ] ],
              LAMBDA e : e.count > 0)

\* how many files the ranking shows (line 378)
TopFiles == 10

\* sorted(items, key=lambda x: len(x[1]), reverse=True): a stable sort, so
\* an item goes behind every item placed before it that is as long or longer
RECURSIVE sorted_by_len(_)
sorted_by_len(items) ==
    IF items = << >>
    THEN << >>
    ELSE LET before == sorted_by_len(SubSeq(items, 1, Len(items) - 1))
             x == items[Len(items)]
             p == Cardinality({ i \in 1..Len(before) : Len(before[i].val) >= Len(x.val) })
         IN  SubSeq(before, 1, p) \o << x >> \o SubSeq(before, p + 1, Len(before))

\* lines 374-389: the ranked files, each with len(deps)
top_files(by_file) ==
    LET ranked == sorted_by_len(by_file)
        shown == SubSeq(ranked, 1, IF Len(ranked) < TopFiles THEN Len(ranked) ELSE TopFiles)
    IN  [ i \in 1..Len(shown) |-> [ file_path |-> shown[i].key, count |-> Len(shown[i].val) ] ]

\* len(self.report.dependencies_by_file), with a floor of one file
files_analyzed_floored(by_file) ==
    IF by_file = << >> THEN 1 ELSE Len(by_file)

\* lines 315 and 405: len(self.report.dependencies_by_file)
files_analyzed(by_file) == Len(by_file)

\* the text generate_report_text returns
ReportText ==
    [ total_dependencies |-> total_dependencies,
      external_dependencies |-> external_dependencies,
      internal_dependencies |-> internal_dependencies,
      files_analyzed |-> files_analyzed(dependencies_by_file),
      external_packages |->
          LET packages == sorted(external_packages(dependencies_by_file))
          IN  [ i \in 1..Len(packages) |->
                  [ package |-> packages[i],
                    usage_count |-> usage_count(dependencies_by_file, packages[i]) ] ],
      by_type |-> by_type(dependencies_by_file),
      circular_dependencies |-> circular_dependencies,
      top_files |-> top_files(dependencies_by_file) ]

\* the data save_report_json dumps (lines 399-420)
ReportJson ==
    [ summary |->
          [ total_dependencies |-> total_dependencies,
            external_dependencies |-> external_dependencies,
            internal_dependencies |-> internal_dependencies,
            files_analyzed |-> files_analyzed(dependencies_by_file),
            circular_dependencies_count |-> Len(circular_dependencies) ],
      dependencies_by_file |->
          [ k \in 1..Len(dependencies_by_file) |->
              [ key |-> dependencies_by_file[k].key,
                val |-> [ i \in 1..Len(dependencies_by_file[k].val) |->
                            LET dep == dependencies_by_file[k].val[i]
                            IN  [ package |-> dep.package,
                                  import_type |-> dep.import_type,
                                  line_number |-> dep.line_number,
                                  is_external |-> dep.is_external ] ] ] ],
      circular_dependencies |-> circular_dependencies ]

generate_report_text ==
    /\ pc = "idle"
    /\ text_report' = << ReportText >>
    /\ dependencies_by_file' = iterate(dependencies_by_file)
    /\ UNCHANGED << total_dependencies, external_dependencies, internal_dependencies,
                    dependency_graph, circular_dependencies,
                    dfs_vars, history_vars, cls_vars, json_report, text_file >>

save_report_json ==
    /\ pc = "idle"
    /\ json_report' = << ReportJson >>
    /\ dependencies_by_file' = iterate(dependencies_by_file)
    /\ UNCHANGED << total_dependencies, external_dependencies, internal_dependencies,
                    dependency_graph, circular_dependencies,
                    dfs_vars, history_vars, cls_vars, text_report, text_file >>

----------------------------------------------------------------------------
(* A direct call of the classifier, as test_is_external_package makes.     *)

classify ==
    /\ cls_result = << >>
    /\ cls_result' = << is_external_package(cls_package) >>
    /\ UNCHANGED << report_vars, dfs_vars, history_vars, cls_package >>

----------------------------------------------------------------------------
(* Inputs: what the pattern tool answers.                                  *)

\* line numbers the tool reports
Lines == { 1 }

\* One match of the tool and the pattern it answers.  A match that binds no
\* PACKAGE carries no text.
Hits(pats, packages, metas) ==
    [ pat : pats, meta : metas \ { "none" }, text : packages, line : Lines ]
        \cup [ pat : pats, meta : metas \cap { "none" }, text : { << >> }, line : Lines ]

\* the matches of one analyze_file call, in the order the patterns run
HitSeqs(pats, packages, metas) ==
    { h \in UNION { [1..n -> Hits(pats, packages, metas)] : n \in 0..MaxHits } :
        \A i \in 1..(Len(h) - 1) : h[i].pat <= h[i + 1].pat }

\* the answers of the tool to n patterns: out[k] lists the matches of pattern k
ToolOutput(h, n) ==
    [ k \in 1..n |->
        LET mine == SelectSeq(h, LAMBDA m : m.pat = k)
        IN  [ j \in 1..Len(mine) |->
                [ meta |-> mine[j].meta, text |-> mine[j].text, line |-> mine[j].line ] ] ]

\* analyze_file on one of files, the tool reporting the matches h.  The
\* matches reported in all are capped at MaxRecords.
AnalyzeSome(files, hits_py, hits_ts) ==
    /\ UNCHANGED run_vars
    /\ \E file_path \in files :
           IF ~ Supported(file_path)
           THEN analyze_file(file_path, << >>)
           ELSE \E h \in IF suffix(file_path) = SuffixPy THEN hits_py ELSE hits_ts :
                    /\ total_dependencies + Len(h) <= MaxRecords
                    /\ analyze_file(file_path, ToolOutput(h, Len(PatternsOf(file_path))))

\* The ends one run of the tool can take.  A run that does not exit has
\* neither return code nor output: those fields are never read.
Timeout == [ status |-> "timeout", returncode |-> 0, stdout |-> Blank ]
OsError == [ status |-> "oserror", returncode |-> 0, stdout |-> Blank ]
Exited(returncode, stdout) ==
    [ status |-> "exited", returncode |-> returncode, stdout |-> stdout ]

\* elements of the list the tool prints
Match(text) == [ meta |-> "single", text |-> text, line |-> 1 ]
StringElement == [ meta |-> "string", text |-> << >>, line |-> 1 ]
TextlessMatch == [ meta |-> "textless", text |-> << >>, line |-> 1 ]

\* the run that finds nothing: exit code 0 and the JSON list []
NoMatchRun == Exited(0, Json(<< >>))

ToolRuns ==
    { Timeout, OsError,
      Exited(1, Json(<< Match(ScopedX) >>)),
      Exited(0, Blank),
      Exited(0, Invalid),
      NoMatchRun,
      Exited(0, Json(<< Match(RelU) >>)),
      Exited(0, Json(<< StringElement >>)),
      Exited(0, Json(<< TextlessMatch >>)) }

\* the runs of one analyze_file call on a file whose language has n
\* patterns: any run for the first two patterns, no match for the others
RunSeqs(n) ==
    { [ k \in 1..n |-> IF k = 1 THEN first ELSE IF k = 2 THEN second ELSE NoMatchRun ] :
        first \in ToolRuns, second \in ToolRuns }

\* what _run_astgrep returns for each run of a call
Returns(runs) == [ k \in 1..Len(runs) |-> run_astgrep(runs[k]) ]

\* analyze_file on one of files, the runs of the tool spelled out: runs[k]
\* is the end of the run for pattern k.  The records of the report are
\* capped at MaxRecords.
AnalyzeRuns(files, runs_py, runs_ts) ==
    /\ UNCHANGED << main_vars, out_vars >>
    /\ \E file_path \in files :
           \E runs \in IF suffix(file_path) = SuffixPy THEN runs_py ELSE runs_ts :
               \E out \in { Returns(runs) } :
                   /\ total_dependencies
                          + Len(AnalyzeFrom(1, PatternsOf(file_path), out, file_path))
                              <= MaxRecords
                   /\ analyze_file(file_path, out)
                   /\ last_call' = << [ file_path |-> file_path, runs |-> runs ] >>

----------------------------------------------------------------------------
(* analyze_directory, lines 257-273, and main, lines 428-464.              *)

\* line 272: the suffixes analyze_directory hands on to analyze_file
walked(file_path) ==
    suffix(file_path) \in { SuffixPy } \cup SuffixesTs \cup SuffixesJs

\* Line 447.  One step is one iteration of the loops over os.walk (lines
\* 266-273), which yields the files in no fixed order and yields nothing
\* for a directory that does not exist; or the end of those loops, after
\* which main is at line 449.
analyze_directory ==
    /\ main_pc = "walk"
    /\ pc = "idle"
    /\ IF todo = { }
       THEN /\ main_pc' = IF args.detect_circular THEN "detect" ELSE "report"
            /\ UNCHANGED << todo, report_vars, dfs_vars, history_vars, cls_vars >>
       ELSE \E file_path \in todo :
                /\ todo' = todo \ { file_path }
                /\ main_pc' = main_pc
                /\ IF walked(file_path)
                   THEN analyze_file(file_path,
                                     ToolOutput(Get(directory.files, file_path, << >>),
                                                Len(PatternsOf(file_path))))
                   ELSE UNCHANGED << report_vars, dfs_vars, history_vars, cls_vars >>
    /\ UNCHANGED << directory, args, out_vars, last_call >>

\* lines 449-451: the call of find_circular_dependencies
main_detect ==
    /\ main_pc = "detect"
    /\ find_circular_dependencies
    /\ main_pc' = "report"
    /\ UNCHANGED << directory, args, todo, out_vars, last_call >>

\* lines 454-455, once find_circular_dependencies, if called, has returned
main_report ==
    /\ main_pc = "report"
    /\ generate_report_text
    /\ main_pc' = "json"
    /\ UNCHANGED << directory, args, todo, last_call >>

\* lines 458-459
main_json ==
    /\ main_pc = "json"
    /\ IF args.json
       THEN save_report_json
       ELSE UNCHANGED << report_vars, dfs_vars, history_vars, cls_vars, out_vars >>
    /\ main_pc' = "text"
    /\ UNCHANGED << directory, args, todo, last_call >>

\* lines 461-464
main_text ==
    /\ main_pc = "text"
    /\ text_file' = IF args.text THEN text_report ELSE text_file
    /\ main_pc' = "done"
    /\ UNCHANGED << report_vars, dfs_vars, history_vars, cls_vars,
                    directory, args, todo, text_report, json_report, last_call >>

----------------------------------------------------------------------------
(* Specifications.                                                         *)

\* DependencyAnalyzer(root_dir): an empty DependencyReport
InitReport ==
    /\ total_dependencies = 0
    /\ external_dependencies = 0
    /\ internal_dependencies = 0
    /\ dependencies_by_file = << >>
    /\ dependency_graph = << >>
    /\ circular_dependencies = << >>

\* no command line run is under way and nothing has been rendered
InitOff ==
    /\ main_pc = "off"
    /\ directory = [ exists |-> FALSE, files |-> << >> ]
    /\ args = [ detect_circular |-> FALSE, json |-> FALSE, text |-> FALSE ]
    /\ todo = { }
    /\ text_report = << >>
    /\ json_report = << >>
    /\ text_file = << >>
    /\ last_call = << >>

InitLocals ==
    /\ pc = "idle"
    /\ visited = {}
    /\ rec_stack = {}
    /\ frames = << >>
    /\ root_i = 1
    /\ cycles_at_start = << >>
    /\ unmodified = FALSE
    /\ rerun = FALSE
    /\ cls_result = << >>

InitRest ==
    /\ InitLocals
    /\ InitOff

\* The analyzer used as main() and the tests use it: files are analysed and
\* cycles searched in any order.  The tool matches the first pattern only.
SourceFiles == { FileA, FileB, FileC }

Init ==
    /\ InitReport
    /\ InitRest
    /\ cls_package = << >>

\* the tool matches the first pattern only, and what a file imports is a.py or b.ts
HitsPy == HitSeqs({ 1 }, { FileA, FileB }, { "single" })
HitsTs == HitSeqs({ 1 }, { FileA, FileB }, { "single" })

Next ==
    \/ AnalyzeSome(SourceFiles \cup { FileD }, HitsPy, HitsTs)
    \/ find_circular_dependencies /\ UNCHANGED run_vars
    \/ next_root /\ UNCHANGED run_vars
    \/ dfs /\ UNCHANGED run_vars

Spec == Init /\ [][Next]_vars

\* The analysis alone: what a file imports is @x, ./u or os.
AnalysisHitsPy == HitSeqs({ 1 }, { ScopedX, RelU, NameOs }, { "single" })
AnalysisHitsTs == HitSeqs({ 1 }, { ScopedX, RelU, NameOs }, { "single" })

NextAnalyze ==
    AnalyzeSome(SourceFiles \cup { FileD }, AnalysisHitsPy, AnalysisHitsTs)

SpecAnalyze == Init /\ [][NextAnalyze]_vars

\* The detector alone on every graph over the three files, as
\* test_find_circular_dependencies runs it: report.dependency_graph is
\* assigned, then find_circular_dependencies is called, here again and again.
OrderedSubsets(S) ==
    { s \in UNION { [1..n -> S] : n \in 0..Cardinality(S) } :
        \A i, j \in 1..Len(s) : i # j => s[i] # s[j] }

AllGraphs ==
    { [ i \in 1..Len(ks) |-> [ key |-> ks[i], val |-> f[ks[i]] ] ] :
        ks \in OrderedSubsets(SourceFiles),
        f \in [ SourceFiles -> OrderedSubsets(SourceFiles) \ { << >> } ] }

InitDetect ==
    /\ total_dependencies = 0
    /\ external_dependencies = 0
    /\ internal_dependencies = 0
    /\ dependencies_by_file = << >>
    /\ dependency_graph \in AllGraphs
    /\ circular_dependencies = << >>
    /\ InitRest
    /\ cls_package = << >>

NextDetect ==
    \/ find_circular_dependencies /\ UNCHANGED run_vars
    \/ next_root /\ UNCHANGED run_vars
    \/ dfs /\ UNCHANGED run_vars

SpecDetect == InitDetect /\ [][NextDetect]_vars

\* The classifier alone, on every short string and the names of the tests.
InitClassify ==
    /\ InitReport
    /\ InitRest
    /\ cls_package \in Strings \cup TestNames

NextClassify == classify /\ UNCHANGED run_vars

SpecClassify == InitClassify /\ [][NextClassify]_vars

\* The extraction alone, with every end the runs of the tool can take.
RunsPy == RunSeqs(Len(python_patterns))
RunsTs == RunSeqs(Len(typescript_patterns))

NextExtract == AnalyzeRuns({ FileA, FileB }, RunsPy, RunsTs)

SpecExtract == Init /\ [][NextExtract]_vars

\* A command line run, from line 447 on.  The directory is missing, empty,
\* the project of three files that import left-pad and each other, or holds
\* a.py, b.ts and d.md, the first two with up to MaxHits imports of @x or a.py.
File1 == << "f", "i", "l", "e", "1", ".", "t", "s" >>
File2 == << "f", "i", "l", "e", "2", ".", "t", "s" >>
File3 == << "f", "i", "l", "e", "3", ".", "t", "s" >>
RefFile2 == << ".", "/", "f", "i", "l", "e", "2" >>
RefFile3 == << ".", "/", "f", "i", "l", "e", "3" >>
RefUpFile1 == << ".", ".", "/", "f", "i", "l", "e", "1" >>

LeftPadProject ==
    << [ key |-> File1,
         val |-> << [ pat |-> 1, meta |-> "single", text |-> NameLeftPad, line |-> 1 ],
                    [ pat |-> 1, meta |-> "single", text |-> RefFile2, line |-> 2 ] >> ],
       [ key |-> File2,
         val |-> << [ pat |-> 1, meta |-> "single", text |-> RefFile3, line |-> 1 ] >> ],
       [ key |-> File3,
         val |-> << [ pat |-> 1, meta |-> "single", text |-> RefUpFile1, line |-> 1 ] >> ] >>

MainHits == HitSeqs({ 1 }, { ScopedX, FileA }, { "single" })

Directories ==
    { [ exists |-> FALSE, files |-> << >> ],
      [ exists |-> TRUE, files |-> << >> ],
      [ exists |-> TRUE, files |-> LeftPadProject ] }
        \cup { [ exists |-> TRUE,
                 files |-> << [ key |-> FileA, val |-> ha ],
                              [ key |-> FileB, val |-> hb ],
                              [ key |-> FileD, val |-> << >> ] >> ] :
                 ha \in MainHits, hb \in MainHits }

InitMain ==
    /\ InitReport
    /\ InitLocals
    /\ cls_package = << >>
    /\ main_pc = "walk"
    /\ directory \in Directories
    /\ args \in [ detect_circular : BOOLEAN, json : BOOLEAN, text : BOOLEAN ]
    /\ todo = IF directory.exists THEN Keys(directory.files) ELSE { }
    /\ text_report = << >>
    /\ json_report = << >>
    /\ text_file = << >>
    /\ last_call = << >>

NextMain ==
    \/ analyze_directory
    \/ main_detect
    \/ next_root /\ UNCHANGED run_vars
    \/ dfs /\ UNCHANGED run_vars
    \/ main_report
    \/ main_json
    \/ main_text

SpecMain == InitMain /\ [][NextMain]_vars

----------------------------------------------------------------------------
(* Vocabulary of the properties.                                           *)

\* the edges of a graph, as pairs << source, target >>
Edges(graph) ==
    UNION { { << graph[i].key, t >> : t \in Range(graph[i].val) } : i \in 1..Len(graph) }

Nodes(graph) == { e[1] : e \in Edges(graph) } \cup { e[2] : e \in Edges(graph) }

RECURSIVE ReachFrom(_, _, _)
ReachFrom(E, S, n) ==
    IF n = 0
    THEN S
    ELSE ReachFrom(E, S \cup { e[2] : e \in { d \in E : d[1] \in S } }, n - 1)

\* the graph has a directed cycle: some edge u -> v with u reachable from v
HasCycle(graph) ==
    \E e \in Edges(graph) :
        e[1] \in ReachFrom(Edges(graph), { e[2] }, Cardinality(Nodes(graph)))

\* find_circular_dependencies has returned and nothing has touched the graph since
Returned == pc = "idle" /\ unmodified

\* the innermost dfs is about to look at a neighbour that is on the stack
AtBackEdge ==
    /\ pc = "dfs"
    /\ LET top == frames[Len(frames)]
           neighbors == Get(dependency_graph, top.node, << >>)
       IN  /\ top.i <= Len(neighbors)
           /\ neighbors[top.i] \in visited
           /\ neighbors[top.i] \in rec_stack

\* the cycle that step finds
Found ==
    LET top == frames[Len(frames)]
    IN  cycle_of(top.path, Get(dependency_graph, top.node, << >>)[top.i])

\* how often x occurs in the list s
Count(s, x) == Cardinality({ i \in 1..Len(s) : s[i] = x })

\* two lists hold the same entries the same number of times
SameEntries(s, t) ==
    \A x \in Range(s) \cup Range(t) : Count(s, x) = Count(t, x)

\* the records the report holds for file f
RecordsOf(f) == Get(dependencies_by_file, f, << >>)

\* the strings some edge of the graph points to
Targets(graph) == { e[2] : e \in Edges(graph) }

\* the files that hold a record for the package
FilesReferencing(package) ==
    { f \in Keys(dependencies_by_file) :
        \E i \in 1..Len(RecordsOf(f)) : RecordsOf(f)[i].package = package }

\* the number of distinct graph edges that leave file f
FanOut(f) == Cardinality(Range(Get(dependency_graph, f, << >>)))

\* the place of file f among the keys of dependencies_by_file
InsertedAt(f) ==
    CHOOSE k \in 1..Len(dependencies_by_file) : dependencies_by_file[k].key = f

\* every run of the call made _run_astgrep return the empty list
AllReturnEmpty(call) ==
    \A k \in 1..Len(call.runs) : run_astgrep(call.runs[k]) = << >>

\* the run timed out, could not start, or exited with a return code other than 0
Failed(run) == run.status # "exited" \/ run.returncode # 0

\* the call with every failed run replaced by a run that finds nothing
Healed(call) ==
    [ file_path |-> call.file_path,
      runs |-> [ k \in 1..Len(call.runs) |->
                   IF Failed(call.runs[k]) THEN NoMatchRun ELSE call.runs[k] ] ]

\* the records the extraction of the call returns
ExtractionOf(call) ==
    AnalyzeFrom(1, PatternsOf(call.file_path), Returns(call.runs), call.file_path)

\* the records analyze_file extracts from file f of the directory
WalkedDeps(f) ==
    IF walked(f) /\ Supported(f)
    THEN AnalyzeFrom(1, PatternsOf(f),
                     ToolOutput(Get(directory.files, f, << >>), Len(PatternsOf(f))), f)
    ELSE << >>

\* the internal records among deps
Internal(deps) == SelectSeq(deps, LAMBDA dep : ~ dep.is_external)

\* the edges of E between nodes of S
InducedEdges(E, S) == { e \in E : e[1] \in S /\ e[2] \in S }

\* every node of S reaches every other along edges inside S
StronglyConnected(E, S) ==
    \A u, v \in S : v \in ReachFrom(InducedEdges(E, S), { u }, Cardinality(S))

\* the strongly connected sets of nodes that hold a directed cycle
CyclicSets(graph) ==
    { S \in SUBSET Nodes(graph) :
        /\ StronglyConnected(Edges(graph), S)
        /\ InducedEdges(Edges(graph), S) # { } }

\* the strongly connected components that hold a directed cycle
CyclicComponents(graph) ==
    { S \in CyclicSets(graph) : \A T \in CyclicSets(graph) : S \subseteq T => S = T }

\* some reported cycle has all its nodes in S
ReportsWithin(S) ==
    \E i \in 1..Len(circular_dependencies) : Range(circular_dependencies[i]) \subseteq S

\* the graph a.py -> b.ts, b.ts -> c.js, c.js -> a.py, a.py -> c.js, with
\* a.py the first key and c.js the first neighbour of a.py
ChordGraph ==
    << [ key |-> FileA, val |-> << FileC, FileB >> ],
       [ key |-> FileB, val |-> << FileC >> ],
       [ key |-> FileC, val |-> << FileA >> ] >>

\* the sum f[1] + ... + f[n]
RECURSIVE Sum(_, _)
Sum(f, n) == IF n = 0 THEN 0 ELSE f[n] + Sum(f, n - 1)

\* a run of find_circular_dependencies is under way
Running == pc \in { "roots", "dfs" }

\* the steps one dfs call on node n takes: one per neighbour and its return
Work(n) == Len(Get(dependency_graph, n, << >>)) + 1

\* An upper bound on the steps the run under way still takes: the end of
\* the root loop, its remaining iterations, what is left of every active
\* dfs call, and a whole dfs call for every node not yet visited.
StepsLeft ==
    IF ~ Running
    THEN 0
    ELSE 1 + (Len(dependency_graph) + 1 - root_i)
           + Sum([ k \in 1..Len(frames) |-> Work(frames[k].node) + 1 - frames[k].i ],
                 Len(frames))
           + Sum([ k \in 1..Len(dependency_graph) |->
                     IF dependency_graph[k].key \in visited
                     THEN 0 ELSE Work(dependency_graph[k].key) ],
                 Len(dependency_graph))
           + Cardinality((Nodes(dependency_graph) \ Keys(dependency_graph)) \ visited)

----------------------------------------------------------------------------
(* The properties.                                                         *)

\* C1: the classifier answers False for every reference that begins with
\* '.', among them './x', '../x' and the bare '.'.
C1_RelativeIsInternal ==
    (cls_result # << >> /\ startswith(cls_package, << "." >>))
        => cls_result = << FALSE >>

C1_Witness ==
    /\ cls_package = NameUpComponents
    /\ cls_result = << FALSE >>

\* C2: the classifier answers True for every non-empty reference that does
\* not begin with '.', whatever its name.
C2_OtherIsExternal ==
    (cls_result # << >> /\ cls_package # << >> /\ ~ startswith(cls_package, << "." >>))
        => cls_result = << TRUE >>

\* C3: the graph has an edge from file f to string p exactly when some
\* record stored for f has package p and is_external = False, and the
\* package of a record with is_external = True is no target of its file.
C3_EdgeIffInternalRecord ==
    /\ \A f \in Keys(dependency_graph) \cup Keys(dependencies_by_file) :
           \A p \in Range(Get(dependency_graph, f, << >>))
                      \cup { RecordsOf(f)[i].package : i \in 1..Len(RecordsOf(f)) } :
               (<< f, p >> \in Edges(dependency_graph))
                   <=> (\E i \in 1..Len(RecordsOf(f)) :
                           /\ RecordsOf(f)[i].package = p
                           /\ ~ RecordsOf(f)[i].is_external)
    /\ \A f \in Keys(dependencies_by_file) :
           \A i \in 1..Len(RecordsOf(f)) :
               RecordsOf(f)[i].is_external
                   => << f, RecordsOf(f)[i].package >> \notin Edges(dependency_graph)

C3_Witness ==
    /\ \E i \in 1..Len(RecordsOf(FileB)) : RecordsOf(FileB)[i].is_external
    /\ << FileB, RelU >> \in Edges(dependency_graph)
    /\ << FileB, ScopedX >> \notin Edges(dependency_graph)

\* C4: on the graph with exactly the edges A->B, B->C, C->A, a run that
\* began with an empty cycle list and took A as first root leaves the list
\* [[A, B, C, A]].
C4_TriangleFromA ==
    ( /\ Returned
      /\ cycles_at_start = << >>
      /\ Edges(dependency_graph)
             = { << FileA, FileB >>, << FileB, FileC >>, << FileC, FileA >> }
      /\ dependency_graph[1].key = FileA )
        => circular_dependencies = << << FileA, FileB, FileC, FileA >> >>

C4_Witness ==
    /\ Returned
    /\ cycles_at_start = << >>
    /\ Edges(dependency_graph)
           = { << FileA, FileB >>, << FileB, FileC >>, << FileC, FileA >> }
    /\ dependency_graph[1].key = FileA
    /\ Len(circular_dependencies) = 1

\* C5: on a graph without directed cycle, a run that began with an empty
\* cycle list never puts anything in it and does not fail, whatever the
\* order of roots and neighbours.
C5_AcyclicStaysEmpty ==
    (~ HasCycle(dependency_graph) /\ cycles_at_start = << >>)
        => (circular_dependencies = << >> /\ pc # "raised")

C5_Witness ==
    /\ Returned
    /\ Edges(dependency_graph) = { << FileA, FileB >>, << FileB, FileC >> }
    /\ circular_dependencies = << >>

\* C6: on a graph with a directed cycle, a run that has returned leaves at
\* least one entry in the cycle list, whatever the order of roots and
\* neighbours.
C6_CyclicIsReported ==
    (Returned /\ HasCycle(dependency_graph))
        => Len(circular_dependencies) >= 1

C6_Witness ==
    /\ Returned
    /\ cycles_at_start = << >>
    /\ Edges(dependency_graph)
           = { << FileA, FileB >>, << FileB, FileC >>, << FileC, FileA >>,
               << FileA, FileC >> }
    /\ Len(circular_dependencies) >= 1

\* C7: a run that follows a returned run with the graph unmodified in
\* between leaves the same cycle records, each as often, as that run left.
C7_SecondRunSame ==
    (Returned /\ rerun)
        => SameEntries(circular_dependencies, cycles_at_start)

C7_Witness ==
    /\ Returned
    /\ rerun
    /\ Len(circular_dependencies) >= 2

\* C8: every entry of the cycle list is a closed loop: at least 2 elements,
\* the first equal to the last; a self-edge A->A gives [A, A].
C8_ClosedLoops ==
    \A i \in 1..Len(circular_dependencies) :
        LET c == circular_dependencies[i]
        IN  Len(c) >= 2 /\ c[1] = c[Len(c)]

C8_Witness ==
    << FileA, FileA >> \in Range(circular_dependencies)

\* C9: at every point during and after any number of runs, no two entries
\* of the cycle list are equal as ordered sequences.
C9_NoEqualEntries ==
    \A i, j \in 1..Len(circular_dependencies) :
        i # j => circular_dependencies[i] # circular_dependencies[j]

C9_Witness ==
    /\ AtBackEdge
    /\ Found \in Range(circular_dependencies)

\* C10: a found cycle that is not yet in the list is appended to it also
\* when the list holds a rotation of it (the same loop begun at another
\* node), so that the list comes to hold two rotations of one loop.
C10_RotationsAppended ==
    [][ ( /\ AtBackEdge
          /\ Found \notin Range(circular_dependencies)
          /\ \E i \in 1..Len(circular_dependencies) :
                 IsRotation(circular_dependencies[i], Found) )
            => circular_dependencies' = Append(circular_dependencies, Found) ]_vars

C10_Witness ==
    \E i, j \in 1..Len(circular_dependencies) :
        /\ i < j
        /\ IsRotation(circular_dependencies[i], circular_dependencies[j])

\* C11: find_circular_dependencies terminates on every graph, cyclic or
\* not: every step of a run lowers a bound on the steps still to come, which
\* never falls below 0.  Within a run the visited set only grows, and dfs is
\* entered only on a node not yet in it, which the entry puts there: at
\* most once per node.
C11_TerminatesOncePerNode ==
    [][ Running =>
          /\ StepsLeft' < StepsLeft
          /\ StepsLeft' >= 0
          /\ visited \subseteq visited'
          /\ Len(frames') > Len(frames) =>
                 /\ frames'[Len(frames')].node \notin visited
                 /\ visited' = visited \cup { frames'[Len(frames')].node }
                 /\ \A k \in 1..Len(frames) :
                        frames[k].node # frames'[Len(frames')].node ]_vars

C11_Witness ==
    /\ Returned
    /\ HasCycle(dependency_graph)
    /\ Cardinality(visited) = 3
    /\ Len(dependency_graph) = 3

\* C12: the usage count the text report gives for an external package is
\* the number of distinct files that hold a record for it, also when one
\* file holds several.
C12_UsageIsDistinctFiles ==
    text_report # << >> =>
        \A k \in 1..Len(text_report[1].external_packages) :
            text_report[1].external_packages[k].usage_count
                = Cardinality(FilesReferencing(text_report[1].external_packages[k].package))

\* C13: the ranking of the text report lists the files by descending
\* fan-out, the number of distinct graph edges that leave the file, and
\* files of equal fan-out in the order of their first insertion into the
\* report.
C13_RankedByFanOut ==
    text_report # << >> =>
        \A i, j \in 1..Len(text_report[1].top_files) :
            i < j =>
                LET f == text_report[1].top_files[i].file_path
                    g == text_report[1].top_files[j].file_path
                IN  \/ FanOut(f) > FanOut(g)
                    \/ FanOut(f) = FanOut(g) /\ InsertedAt(f) < InsertedAt(g)

\* C14: a call of generate_report_text leaves the three counters, the
\* per-file record lists with their keys, the graph and the cycle list as
\* they were.
C14_ReportTextLeavesReport ==
    [][ text_report' # text_report => UNCHANGED report_vars ]_vars

C14_Witness ==
    /\ text_report # << >>
    /\ total_dependencies >= 2
    /\ ~ (Nodes(dependency_graph) \subseteq Keys(dependencies_by_file))

C16_NoMatchNoChange ==
    [][ (last_call' # << >> /\ AllReturnEmpty(last_call'[1]))
            => /\ ExtractionOf(last_call'[1]) = << >>
               /\ pc' = "idle"
               /\ UNCHANGED report_vars ]_vars

C16_Witness ==
    /\ last_call # << >>
    /\ AllReturnEmpty(last_call[1])
    /\ last_call[1].file_path \in Keys(dependencies_by_file)
    /\ pc = "idle"

\* C17: a run of the tool that times out, cannot start or exits non-zero
\* gives no record for its pattern, and the call does to the report exactly
\* what it does when each such run is replaced by one that finds nothing:
\* the records of the other patterns are added, those of other files stay.
C17_FailedRunIsNoMatch ==
    [][ (last_call' # << >>
            /\ \E k \in 1..Len(last_call'[1].runs) : Failed(last_call'[1].runs[k]))
            => LET call == last_call'[1]
                   f == call.file_path
                   deps == ExtractionOf(Healed(call))
               IN  /\ \A k \in 1..Len(call.runs) :
                          Failed(call.runs[k])
                              => MatchesToDeps(run_astgrep(call.runs[k]),
                                               PatternsOf(f)[k], f) = << >>
                   /\ IF extraction_raises(Returns(Healed(call).runs))
                      THEN pc' = "raised" /\ UNCHANGED report_vars
                      ELSE /\ pc' = "idle"
                           /\ dependencies_by_file' = ByFileAfter(dependencies_by_file, deps)
                           /\ total_dependencies' = total_dependencies + Len(deps)
                           /\ external_dependencies'
                                  = external_dependencies + CountExternal(deps)
                           /\ internal_dependencies'
                                  = internal_dependencies + Len(deps) - CountExternal(deps)
                           /\ dependency_graph' \in GraphsAfter(dependency_graph, f, deps)
                           /\ UNCHANGED circular_dependencies ]_vars

C17_Witness ==
    /\ last_call # << >>
    /\ last_call[1].file_path = FileB
    /\ last_call[1].runs[1] = Timeout
    /\ last_call[1].runs[2] = Exited(0, Json(<< Match(RelU) >>))
    /\ Len(RecordsOf(FileB)) = 1
    /\ Len(RecordsOf(FileA)) = 2
    /\ pc = "idle"

\* C18: whatever the tool prints on exit code 0, invalid JSON or JSON that
\* is no list of match objects, analyze_file raises nothing to its caller
\* and the run gives no record.
C18_MalformedNeverPropagates ==
    last_call # << >> =>
        /\ pc # "raised"
        /\ \A k \in 1..Len(last_call[1].runs) :
               (\E j \in 1..Len(run_astgrep(last_call[1].runs[k])) :
                    run_astgrep(last_call[1].runs[k])[j].meta \in Malformed)
                   => MatchesToDeps(run_astgrep(last_call[1].runs[k]),
                                    PatternsOf(last_call[1].file_path)[k],
                                    last_call[1].file_path) = << >>

\* C19: a command line run on the project where file1 imports left-pad
\* and ./file2, file2 imports ./file3 and file3 imports ../file1 ends with
\* total = 3, external = 1 and internal = 2.
C19_LeftPadTotals ==
    (main_pc = "done" /\ directory.files = LeftPadProject)
        => /\ total_dependencies = 3
           /\ external_dependencies = 1
           /\ internal_dependencies = 2

\* C20: when the root directory does not exist, the run produces no
\* report: no text report is generated and no JSON report is written.
C20_MissingRootNoReport ==
    ~ directory.exists
        => (text_report = << >> /\ json_report = << >> /\ text_file = << >>)

\* C21: the data save_report_json writes hold the three counts, for every
\* file its list of (package, import_type, line_number, is_external), the
\* adjacency graph and the cycle list.
C21_JsonHoldsGraph ==
    json_report # << >> =>
        /\ json_report[1].summary.total_dependencies = total_dependencies
        /\ json_report[1].summary.external_dependencies = external_dependencies
        /\ json_report[1].summary.internal_dependencies = internal_dependencies
        /\ Keys(json_report[1].dependencies_by_file) = Keys(dependencies_by_file)
        /\ json_report[1].circular_dependencies = circular_dependencies
        /\ "dependency_graph" \in DOMAIN json_report[1]

\* C22: in every entry of the cycle list each pair of consecutive nodes is
\* an edge of the graph.
C22_ConsecutiveAreEdges ==
    \A i \in 1..Len(circular_dependencies) :
        \A k \in 1..(Len(circular_dependencies[i]) - 1) :
            << circular_dependencies[i][k], circular_dependencies[i][k + 1] >>
                \in Edges(dependency_graph)

C22_Witness ==
    /\ Returned
    /\ \E i \in 1..Len(circular_dependencies) : Len(circular_dependencies[i]) = 4
    /\ \E i \in 1..Len(circular_dependencies) : Len(circular_dependencies[i]) = 3

\* C23: whenever dfs looks at the neighbours of a node, the recursion stack
\* is the set of the nodes of the path, the path repeats no node and ends
\* with that node; when the run has finished the recursion stack is empty.
C23_StackIsPath ==
    /\ pc = "dfs" =>
           LET top == frames[Len(frames)]
           IN  /\ rec_stack = Range(top.path)
               /\ \A i, j \in 1..Len(top.path) : i # j => top.path[i] # top.path[j]
               /\ top.path[Len(top.path)] = top.node
    /\ Returned => rec_stack = { }

C23_Witness ==
    /\ pc = "dfs"
    /\ Len(frames) = 3
    /\ frames[3].i > 1
    /\ Cardinality(rec_stack) = 3

\* C24: every node of a reported cycle is a key of the graph and, as the
\* same string, the target of some edge; while no target equals any key,
\* the cycle list stays empty.
C24_CycleNodesAreKeysAndTargets ==
    /\ \A i \in 1..Len(circular_dependencies) :
           \A node \in Range(circular_dependencies[i]) :
               /\ node \in Keys(dependency_graph)
               /\ node \in Targets(dependency_graph)
    /\ Targets(dependency_graph) \cap Keys(dependency_graph) = { }
           => circular_dependencies = << >>

C24_Witness ==
    /\ Returned
    /\ Len(dependency_graph) = 2
    /\ Targets(dependency_graph) \cap Keys(dependency_graph) = { }
    /\ circular_dependencies = << >>

\* C25: the graph is append-only during a run of main: no step of
\* analyze_directory, find_circular_dependencies, generate_report_text or
\* save_report_json removes a key, a node or an edge, and an edge is added
\* only by a step that analyzes a file of the walk.
C25_GraphAppendOnly ==
    [][ /\ Keys(dependency_graph) \subseteq Keys(dependency_graph')
        /\ Nodes(dependency_graph) \subseteq Nodes(dependency_graph')
        /\ Edges(dependency_graph) \subseteq Edges(dependency_graph')
        /\ Edges(dependency_graph') # Edges(dependency_graph)
               => /\ main_pc = "walk"
                  /\ \E file_path \in todo : /\ todo' = todo \ { file_path }
                                             /\ walked(file_path) ]_vars

C25_Witness ==
    /\ main_pc = "done"
    /\ Returned
    /\ json_report # << >>
    /\ Len(dependency_graph) >= 2
    /\ Cardinality(Edges(dependency_graph)) >= 3

\* C26: after any sequence of analyze_file calls on an empty report the
\* total is the sum of the external and the internal count, and it is the
\* sum of the lengths of the per-file record lists, equal records included.
C26_CountersCountRecords ==
    /\ total_dependencies = external_dependencies + internal_dependencies
    /\ total_dependencies =
           Sum([ i \in 1..Len(dependencies_by_file) |-> Len(dependencies_by_file[i].val) ],
               Len(dependencies_by_file))

C26_Witness ==
    /\ external_dependencies > 0
    /\ internal_dependencies > 0
    /\ \E i \in 1..Len(dependencies_by_file) :
           LET held == dependencies_by_file[i].val
           IN  \E j, k \in 1..Len(held) : j < k /\ held[j] = held[k]

\* C27: a step of find_circular_dependencies changes nothing of the report
\* but the cycle list: the graph, its keys included, also where a node is
\* only a target, the per-file records and the three counters stay.
C27_DetectorChangesOnlyCycles ==
    [][ (Running \/ Running')
           => UNCHANGED << dependency_graph, dependencies_by_file, total_dependencies,
                           external_dependencies, internal_dependencies >> ]_vars

C27_Witness ==
    /\ Returned
    /\ circular_dependencies # << >>
    /\ dependencies_by_file # << >>
    /\ Nodes(dependency_graph) \ Keys(dependency_graph) # { }

\* C28: once the walk is over, the three counters, the graph and the
\* records of each file are what the files of the directory determine,
\* whatever the order in which analyze_file was called on them.
C28_OrderOfFilesIsImmaterial ==
    (main_pc # "walk" /\ pc # "raised") =>
        LET listing == directory.files
            n == Len(listing)
        IN  /\ total_dependencies =
                   Sum([ i \in 1..n |-> Len(WalkedDeps(listing[i].key)) ], n)
            /\ external_dependencies =
                   Sum([ i \in 1..n |-> CountExternal(WalkedDeps(listing[i].key)) ], n)
            /\ internal_dependencies =
                   Sum([ i \in 1..n |-> Len(Internal(WalkedDeps(listing[i].key))) ], n)
            /\ Keys(dependencies_by_file) =
                   { f \in Keys(listing) : WalkedDeps(f) # << >> }
            /\ \A f \in Keys(listing) : SameEntries(RecordsOf(f), WalkedDeps(f))
            /\ Keys(dependency_graph) =
                   { f \in Keys(listing) : Internal(WalkedDeps(f)) # << >> }
            /\ Edges(dependency_graph) =
                   UNION { { << f, dep.package >> : dep \in Range(Internal(WalkedDeps(f))) } :
                             f \in Keys(listing) }

C28_Witness ==
    /\ main_pc = "done"
    /\ Len(dependencies_by_file) = 2
    /\ dependencies_by_file[1].key = FileB
    /\ Len(dependency_graph) = 2
    /\ dependency_graph[1].key = FileB
    /\ external_dependencies > 0

\* C29 as stated: after a run from an empty cycle list, every strongly
\* connected set of nodes that holds a directed cycle holds all the nodes
\* of some reported cycle.
C29_EverySetHoldsAReportedCycle ==
    (Returned /\ cycles_at_start = << >>) =>
        \A S \in CyclicSets(dependency_graph) : ReportsWithin(S)

\* C29, amended: after a run from an empty cycle list, every strongly
\* connected component (maximal strongly connected set) that holds a
\* directed cycle holds all the nodes of some reported cycle, whatever the
\* exploration order.
C29_EveryComponentHoldsAReportedCycle ==
    (Returned /\ cycles_at_start = << >>) =>
        \A S \in CyclicComponents(dependency_graph) : ReportsWithin(S)

C29_Witness ==
    /\ Returned
    /\ cycles_at_start = << >>
    /\ Cardinality(CyclicComponents(dependency_graph)) = 2
    /\ \A S \in CyclicComponents(dependency_graph) : ReportsWithin(S)

\* C30: the detector is not exhaustive.  On the graph a.py -> b.ts,
\* b.ts -> c.js, c.js -> a.py, a.py -> c.js, searched from a.py with c.js
\* before b.ts, a run from an empty cycle list ends with the simple cycle
\* (a.py, b.ts, c.js, a.py) of the graph not in the list and with b.ts in
\* no reported cycle.
C30_ChordHidesACycle ==
    (Returned /\ cycles_at_start = << >> /\ dependency_graph = ChordGraph) =>
        LET missed == << FileA, FileB, FileC, FileA >>
        IN  /\ \A k \in 1..(Len(missed) - 1) :
                   << missed[k], missed[k + 1] >> \in Edges(dependency_graph)
            /\ missed \notin Range(circular_dependencies)
            /\ \A i \in 1..Len(circular_dependencies) :
                   FileB \notin Range(circular_dependencies[i])

C30_Witness ==
    /\ Returned
    /\ cycles_at_start = << >>
    /\ dependency_graph = ChordGraph
    /\ circular_dependencies = << << FileA, FileC, FileA >> >>

====
